---- MODULE Spec2Model ----
(***************************************************************************)
(* Model of the two upload utilities CRYOHYDRO_upload.py and               *)
(* CLMS_upload.py.  A Python string is a sequence of symbols: "/", ":" and *)
(* " " are the characters the code inspects, every other symbol stands for *)
(* a run of characters holding none of them.                               *)
(***************************************************************************)
EXTENDS Integers, Sequences, FiniteSets, TLC

\* ------------------------------------------------------------------ bounds
MaxFragLen == 3
MaxLineLen == 3

\* ------------------------------------------------------- string primitives
\* All strings of length 0..n over the alphabet.
StringsUpTo(alphabet, n) == UNION {[1..k -> alphabet] : k \in 0..n}

RECURSIVE rstrip(_, _)
\* str.rstrip(c)
rstrip(s, c) ==
    IF s # <<>> /\ s[Len(s)] = c THEN rstrip(SubSeq(s, 1, Len(s) - 1), c) ELSE s

RECURSIVE lstrip(_, _)
lstrip(s, c) ==
    IF s # <<>> /\ s[1] = c THEN lstrip(Tail(s), c) ELSE s

\* str.strip() on the modelled whitespace symbol
strip(s) == rstrip(lstrip(s, " "), " ")

RECURSIVE replace(_)
\* str.replace('//', '/'): one left-to-right pass over non-overlapping matches
replace(s) ==
    IF Len(s) < 2 THEN s
    ELSE IF s[1] = "/" /\ s[2] = "/"
         THEN <<"/">> \o replace(SubSeq(s, 3, Len(s)))
         ELSE <<s[1]>> \o replace(Tail(s))

\* Faulty variant of split: str.split(c, 1), which cuts at the first c only
split_once(s, c) ==
    IF \A i \in 1..Len(s) : s[i] # c THEN <<s>>
    ELSE LET i == CHOOSE k \in 1..Len(s) :
                      s[k] = c /\ \A j \in 1..(k - 1) : s[j] # c
         IN <<SubSeq(s, 1, i - 1), SubSeq(s, i + 1, Len(s))>>

RECURSIVE split(_, _)
\* str.split(c): the list of fields between the occurrences of c
split(s, c) ==
    IF \A i \in 1..Len(s) : s[i] # c THEN <<s>>
    ELSE LET i == CHOOSE k \in 1..Len(s) :
                      s[k] = c /\ \A j \in 1..(k - 1) : s[j] # c
         IN <<SubSeq(s, 1, i - 1)>> \o split(SubSeq(s, i + 1, Len(s)), c)

\* os.path.basename: what follows the last '/'
basename(p) ==
    LET slashes == {i \in 1..Len(p) : p[i] = "/"}
        last == IF slashes = {} THEN 0
                ELSE CHOOSE i \in slashes : \A j \in slashes : j <= i
    IN SubSeq(p, last + 1, Len(p))

\* One step of os.path.join (posix): an absolute component discards what precedes
join2(a, b) ==
    IF b # <<>> /\ b[1] = "/" THEN b
    ELSE IF a = <<>> \/ a[Len(a)] = "/" THEN a \o b
    ELSE a \o <<"/">> \o b

\* os.path.join(a, b, c)
join(a, b, c) == join2(join2(a, b), c)

\* Whether the string holds a doubled path separator
HasDoubleSlash(s) == \E i \in 1..(Len(s) - 1) : s[i] = "/" /\ s[i + 1] = "/"

\* Number of occurrences of c in s
Count(s, c) == Cardinality({i \in 1..Len(s) : s[i] = c})

\* ------------------------------------------------------- program constants
Remote == "CRYOHYDRO:CLMS-CRYOHYDRO-INGESTION"
Bucket == "CLMS-CRYOHYDRO-INGESTION"
Keys == <<"type", "provider", "access_key_id", "secret_access_key", "region", "endpoint">>
KeySet == {Keys[i] : i \in 1..Len(Keys)}

\* The options every copy carries ahead of the metadata entries
FixedArgs ==
    <<"--s3-no-check-bucket", "--retries=20", "--low-level-retries=20", "--checksum",
      "--s3-use-multipart-uploads=false", "--metadata">>

\* The values rclone_setup hands to rclone.create_remote
CreatedVals(access_key_id, secret_access_key) ==
    [k \in KeySet |->
        CASE k = "type" -> <<"s3">>
          [] k = "provider" -> <<"Ceph">>
          [] k = "access_key_id" -> access_key_id
          [] k = "secret_access_key" -> secret_access_key
          [] k = "region" -> <<"default">>
          [] OTHER -> <<"https://s3.waw3-1.cloudferro.com">>]

\* ------------------------------------------------------------ input spaces
\* Destination fragments / bucket names: <<>> is the option left out
Fragments == StringsUpTo({"a", "/"}, MaxFragLen)
\* Local file paths: <<>> is the option left out
LocalFiles == {<<>>, <<"f">>, <<"d", "/", "f">>}
\* The local file as the file system holds it
LocalStates == {[exists |-> FALSE, readable |-> FALSE],
                [exists |-> TRUE, readable |-> FALSE],
                [exists |-> TRUE, readable |-> TRUE]}
\* Lines of a credentials file, and credentials files of up to two lines
CredLines == StringsUpTo({"A", ":", " "}, MaxLineLen)
CredFiles ==
    {[exists |-> FALSE, readable |-> FALSE, lines |-> <<>>],
     [exists |-> TRUE, readable |-> FALSE, lines |-> <<>>]}
    \cup {[exists |-> TRUE, readable |-> TRUE, lines |-> ls] :
            ls \in {<<>>} \cup {<<l>> : l \in CredLines}
                          \cup {<<l, m>> : l \in CredLines, m \in CredLines}}
\* rclone.conf: absent, unparsable, or holding (or not) a CRYOHYDRO section
ConfFiles ==
    {[exists |-> FALSE, wellformed |-> FALSE, section |-> FALSE, keys |-> {},
      vals |-> CreatedVals(<<"K">>, <<"S">>)],
     [exists |-> TRUE, wellformed |-> FALSE, section |-> FALSE, keys |-> {},
      vals |-> CreatedVals(<<"K">>, <<"S">>)],
     [exists |-> TRUE, wellformed |-> TRUE, section |-> FALSE, keys |-> {},
      vals |-> CreatedVals(<<"K">>, <<"S">>)]}
    \cup {[exists |-> TRUE, wellformed |-> TRUE, section |-> TRUE, keys |-> ks,
           vals |-> CreatedVals(<<"K">>, <<"S">>)] : ks \in SUBSET KeySet}

\* ----------------------------------------------------------- pure functions
\* pusher, line 111: the destination address handed to rclone.copy
\* (s3_path is the fragment after line 107's rstrip)
destination(s3_path) == replace(<<Remote, "/">> \o s3_path)

\* pusher, line 127: the source-s3-path metadata value
source_s3_path(s3_path, local_file) ==
    <<"s3:", "/", "/">> \o replace(join(<<Bucket>>, s3_path, basename(local_file)))

\* The non-blank lines of the credentials file, each stripped (line 147)
NonBlank(lines) ==
    SelectSeq([i \in 1..Len(lines) |-> strip(lines[i])], LAMBDA l : l # <<>>)

\* parse_credentials: the exception that leaves it ("none": it returns) and the
\* returned pair, as a set that is empty when nothing is returned
parse_credentials(file) ==
    IF ~file.exists
    THEN [exc |-> "CredentialsError", msg |-> "Credentials file not found", ret |-> {}]
    ELSE IF ~file.readable
    THEN [exc |-> "CredentialsError", msg |-> "Error reading credentials", ret |-> {}]
    ELSE IF NonBlank(file.lines) = <<>>
    THEN [exc |-> "CredentialsError", msg |-> "Credentials file is empty", ret |-> {}]
    ELSE LET fields == split(NonBlank(file.lines)[1], ":")
         IN IF Len(fields) # 2
            THEN [exc |-> "CredentialsError", msg |-> "Invalid credentials format",
                  ret |-> {}]
            ELSE [exc |-> "none", msg |-> "",
                  ret |-> {<<strip(fields[1]), strip(fields[2])>>}]

\* The outcomes parse_credentials has over the credentials files
CredOutcomes == {parse_credentials(f) : f \in CredFiles}

\* config_settings: the first key of the section that is missing, in the order
\* the UploadConfig constructor reads them
MissingKeys(conf) == {i \in 1..Len(Keys) : Keys[i] \notin conf.keys}
FirstMissing(conf) == Keys[CHOOSE i \in MissingKeys(conf) : \A j \in MissingKeys(conf) : i <= j]

\* Faulty variant of config_settings: a key the section lacks reads as the empty
\* string (config.get with a fallback) instead of raising KeyError
config_settings_partial(conf) ==
    IF ~conf.exists
    THEN [exc |-> "FileNotFoundError", msg |-> "Configuration file not found", ret |-> {}]
    ELSE IF ~conf.wellformed \/ ~conf.section
    THEN [exc |-> "UploadError", msg |-> "Error parsing configuration file", ret |-> {}]
    ELSE LET get(k) == IF k \in conf.keys THEN conf.vals[k] ELSE <<>>
         IN [exc |-> "none", msg |-> "",
             ret |-> {[rclone_type |-> get("type"),
                       provider |-> get("provider"),
                       access_key_id |-> get("access_key_id"),
                       secret_access_key |-> get("secret_access_key"),
                       region |-> get("region"),
                       endpoint |-> get("endpoint")]}]

\* config_settings: the exception that leaves it and the returned UploadConfig
config_settings(conf) ==
    IF ~conf.exists
    THEN [exc |-> "FileNotFoundError", msg |-> "Configuration file not found", ret |-> {}]
    ELSE IF ~conf.wellformed
    THEN [exc |-> "UploadError", msg |-> "Error parsing configuration file", ret |-> {}]
    ELSE IF ~conf.section
    THEN [exc |-> "UploadError", msg |-> "Error parsing configuration file: CRYOHYDRO",
          ret |-> {}]
    ELSE IF MissingKeys(conf) # {}
    THEN [exc |-> "UploadError",
          msg |-> "Error parsing configuration file: " \o FirstMissing(conf), ret |-> {}]
    ELSE [exc |-> "none", msg |-> "",
          ret |-> {[rclone_type |-> conf.vals["type"],
                    provider |-> conf.vals["provider"],
                    access_key_id |-> conf.vals["access_key_id"],
                    secret_access_key |-> conf.vals["secret_access_key"],
                    region |-> conf.vals["region"],
                    endpoint |-> conf.vals["endpoint"]]}]

\* calculate_file_metadata, lines 84-96: the metadata of a readable file
file_metadata ==
    [timestamp |-> <<"now">>, last_modified |-> <<"mtime">>,
     file_size |-> <<"size">>, md5_checksum |-> <<"md5">>]

\* pusher, lines 117-132: the args list of the CRYOHYDRO copy
cryohydro_metadata_set(config, s3_path, local_file, metadata) ==
    <<[key |-> "uploaded", value |-> metadata.timestamp],
      [key |-> "WorkflowName", value |-> <<"clms_upload">>],
      [key |-> "source-s3-endpoint-url", value |-> config.endpoint],
      [key |-> "source-s3-path", value |-> source_s3_path(s3_path, local_file)],
      [key |-> "file-size", value |-> metadata.file_size],
      [key |-> "md5", value |-> metadata.md5_checksum],
      [key |-> "last_modified", value |-> metadata.last_modified],
      [key |-> "s3-public-key", value |-> config.access_key_id]>>

\* CLMS_upload.py, line 40: the dated suffix of the destination
DatePath == <<"/", "Y", "/", "m", "/", "d", "/">>

\* CLMS_upload.py, line 40: the metadata entries of the CLMS copy
clms_metadata_set(producer_bucket, local_file, metadata) ==
    <<[key |-> "uploaded", value |-> metadata.timestamp],
      [key |-> "WorkflowName", value |-> <<"clms_upload">>],
      [key |-> "source-s3-endpoint-url", value |-> <<"RCLONE_CONFIG_CLMS_ENDPOINT">>],
      [key |-> "source-s3-path",
       value |-> producer_bucket \o DatePath \o basename(local_file)],
      [key |-> "file-size", value |-> metadata.file_size],
      [key |-> "last-modified", value |-> metadata.last_modified]>>

\* -------------------------------------------------------------------- state
VARIABLES
    entry,            \* what is run: a script, or one function called directly
    pc,               \* the position of the run
    rclone_installed, \* rclone.is_installed()
    local,            \* the local file on disk
    conf,             \* ~/.config/rclone/rclone.conf
    cred_file,        \* the credentials file handed to parse_credentials
    env_endpoint,     \* whether RCLONE_CONFIG_CLMS_ENDPOINT is set
    opt,              \* the parsed options (the arguments, for pusher)
    config,           \* the resolved UploadConfig (a set of at most one)
    s3_path,          \* pusher's s3_path after normalisation
    metadata,         \* the computed file metadata (a set of at most one)
    exists_check,     \* the results of the existence checks of the local file
    copies,           \* the invocations of rclone.copy, in order
    out,              \* the lines printed
    exc,              \* the exception that ended the run ("none": none)
    ret,              \* what a directly called function returned (a set)
    exit_code,        \* <<>> while running, <<n>> once the process has exited
    interrupted_at    \* the position a KeyboardInterrupt arrived at ("": none did)

vars == <<entry, pc, rclone_installed, local, conf, cred_file, env_endpoint, opt,
          config, s3_path, metadata, exists_check, copies, out, exc, ret, exit_code,
          interrupted_at>>

env == <<entry, rclone_installed, local, cred_file, env_endpoint>>

Entries == {"CRYOHYDRO", "CLMS", "pusher", "parse_credentials", "config_settings"}

\* opt before the options are parsed
NoOpt ==
    [local_file |-> <<>>, s3_path |-> <<>>, producer_bucket |-> <<>>,
     overwrite |-> TRUE, credentials_path |-> FALSE]

AbsentCred == [exists |-> FALSE, readable |-> FALSE, lines |-> <<>>]
AbsentConf ==
    [exists |-> FALSE, wellformed |-> FALSE, section |-> FALSE, keys |-> {},
     vals |-> CreatedVals(<<"K">>, <<"S">>)]
FullConf(access_key_id, secret_access_key) ==
    [exists |-> TRUE, wellformed |-> TRUE, section |-> TRUE, keys |-> KeySet,
     vals |-> CreatedVals(access_key_id, secret_access_key)]

Init ==
    /\ entry \in Entries
    /\ pc = CASE entry = "CRYOHYDRO" -> "import"
              [] entry = "CLMS" -> "clms_start"
              [] OTHER -> entry
    /\ rclone_installed \in
         (IF entry \in {"CRYOHYDRO", "CLMS", "pusher"} THEN BOOLEAN ELSE {TRUE})
    /\ local \in
         (IF entry \in {"CRYOHYDRO", "CLMS", "pusher"} THEN LocalStates
          ELSE {[exists |-> FALSE, readable |-> FALSE]})
    /\ conf \in (IF entry \in {"CRYOHYDRO", "config_settings"} THEN ConfFiles
                 ELSE {AbsentConf})
    /\ cred_file \in (IF entry = "parse_credentials" THEN CredFiles ELSE {AbsentCred})
    /\ env_endpoint \in (IF entry = "CLMS" THEN BOOLEAN ELSE {TRUE})
    /\ opt \in (IF entry = "pusher"
                THEN [local_file : LocalFiles, s3_path : Fragments,
                      producer_bucket : {<<>>}, overwrite : BOOLEAN,
                      credentials_path : {FALSE}]
                ELSE {NoOpt})
    /\ config = IF entry = "pusher" THEN config_settings(FullConf(<<"K">>, <<"S">>)).ret
                ELSE {}
    /\ s3_path = <<>>
    /\ metadata = {}
    /\ exists_check = <<>>
    /\ copies = <<>>
    /\ out = <<>>
    /\ exc = "none"
    /\ ret = {}
    /\ exit_code = <<>>
    /\ interrupted_at = ""

\* ------------------------------------------------------ leaving on an error
\* main, lines 302-307: the two handlers of main's try block.  SystemExit is
\* neither a KeyboardInterrupt nor an Exception and passes through both.
main_except(e, msg, code) ==
    /\ pc' = "done"
    /\ exc' = e
    /\ IF e = "KeyboardInterrupt"
       THEN out' = Append(out, "Upload interrupted by user") /\ exit_code' = <<1>>
       ELSE IF e = "SystemExit"
       THEN out' = Append(out, msg) /\ exit_code' = <<code>>
       ELSE out' = Append(out, "Error: " \o msg) /\ exit_code' = <<1>>

\* An exception leaves the function that was called directly
escape(e) ==
    /\ pc' = "done"
    /\ exc' = e
    /\ UNCHANGED <<out, exit_code>>

\* An exception raised in CRYOHYDRO_upload.py, under main or under a direct call
raise(e, msg) ==
    IF entry = "CRYOHYDRO" THEN main_except(e, msg, 1) ELSE escape(e)

\* CLMS_upload.py, lines 41-44: the bare except around the upload
clms_except(e) ==
    /\ pc' = "done"
    /\ exc' = e
    /\ out' = out \o <<"ERROR:Uploading file", "traceback: " \o e>>
    /\ exit_code' = <<1>>

\* CLMS_upload.py: print a line and exit(1)
clms_exit(msg) ==
    /\ pc' = "done"
    /\ out' = Append(out, msg)
    /\ exit_code' = <<1>>
    /\ UNCHANGED exc

\* An exception no handler catches: the interpreter prints the traceback; an
\* unhandled KeyboardInterrupt ends the process on SIGINT (status 130)
uncaught(e) ==
    /\ pc' = "done"
    /\ exc' = e
    /\ out' = Append(out, "traceback: " \o e)
    /\ exit_code' = <<IF e = "KeyboardInterrupt" THEN 130 ELSE 1>>

\* ------------------------------------------------------- CRYOHYDRO_upload.py
\* Lines 50-57: the import-time check only prints
import ==
    /\ pc = "import"
    /\ pc' = "parse_args"
    /\ out' = IF rclone_installed THEN out
              ELSE Append(out, "rclone binary not detected")
    /\ UNCHANGED <<env, interrupted_at, conf, opt, config, s3_path, metadata,
                   exists_check, copies,
                   exc, ret, exit_code>>

\* main, line 285: -o stores False into overwrite, whose default is True
parse_args ==
    /\ pc = "parse_args"
    /\ \E l \in LocalFiles, p \in Fragments, o \in BOOLEAN, c \in BOOLEAN :
         opt' = [local_file |-> l, s3_path |-> p, producer_bucket |-> <<>>,
                 overwrite |-> ~o, credentials_path |-> c]
    /\ pc' = "main_setup"
    /\ UNCHANGED <<env, interrupted_at, conf, config, s3_path, metadata, exists_check,
                   copies, out,
                   exc, ret, exit_code>>

\* main, lines 288-289, and rclone_setup: with -c, parse the credentials file
\* and create the remote, which writes the CRYOHYDRO section of rclone.conf
rclone_setup ==
    /\ pc = "main_setup"
    /\ IF ~opt.credentials_path
       THEN /\ pc' = "config_exists"
            /\ UNCHANGED <<conf, out, exc, exit_code>>
       ELSE \E r \in CredOutcomes :
              IF r.exc # "none"
              THEN /\ raise("UploadError", "Error setting up rclone: " \o r.msg)
                   /\ UNCHANGED conf
              ELSE \E created \in (IF rclone_installed THEN BOOLEAN ELSE {FALSE}) :
                     IF created
                     THEN /\ conf' = (LET pair == CHOOSE x \in r.ret : TRUE
                                      IN FullConf(pair[1], pair[2]))
                          /\ pc' = "config_exists"
                          /\ UNCHANGED <<out, exc, exit_code>>
                     ELSE /\ raise("UploadError", "Error setting up rclone")
                          /\ UNCHANGED conf
    /\ UNCHANGED <<env, interrupted_at, opt, config, s3_path, metadata, exists_check,
                   copies, ret>>

\* main, lines 291-293
config_exists ==
    /\ pc = "config_exists"
    /\ IF ~conf.exists
       THEN raise("UploadError", "S3 credentials not present")
       ELSE pc' = "config_settings" /\ UNCHANGED <<out, exc, exit_code>>
    /\ UNCHANGED <<env, interrupted_at, conf, opt, config, s3_path, metadata,
                   exists_check, copies, ret>>

\* main, line 294, or config_settings called directly
config_settings_call ==
    /\ pc = "config_settings"
    /\ LET r == config_settings(conf)
       IN IF r.exc # "none"
          THEN raise(r.exc, r.msg) /\ UNCHANGED <<config, ret>>
          ELSE IF entry = "CRYOHYDRO"
          THEN /\ config' = r.ret
               /\ pc' = "validate"
               /\ UNCHANGED <<out, exc, exit_code, ret>>
          ELSE /\ ret' = r.ret
               /\ pc' = "done"
               /\ UNCHANGED <<out, exc, exit_code, config>>
    /\ UNCHANGED <<env, interrupted_at, conf, opt, s3_path, metadata, exists_check, copies>>

\* main, lines 296-297: parser.error prints the usage to stderr and exits 2
validate ==
    /\ pc = "validate"
    /\ IF opt.local_file = <<>> \/ opt.s3_path = <<>>
       THEN main_except("SystemExit", "usage: Both --local-file and --path-s3 are required", 2)
       ELSE pc' = "pusher" /\ UNCHANGED <<out, exc, exit_code>>
    /\ UNCHANGED <<env, interrupted_at, conf, opt, config, s3_path, metadata,
                   exists_check, copies, ret>>

\* pusher, lines 103-107
pusher ==
    /\ pc = "pusher"
    /\ IF opt.local_file = <<>> \/ opt.s3_path = <<>>
       THEN /\ raise("UploadError", "Both local_file and s3_path must be provided")
            /\ UNCHANGED s3_path
       ELSE /\ s3_path' = rstrip(opt.s3_path, "/")
            /\ pc' = "metadata"
            /\ UNCHANGED <<out, exc, exit_code>>
    /\ UNCHANGED <<env, interrupted_at, conf, opt, config, metadata, exists_check,
                   copies, ret>>

\* pusher, line 110, and calculate_file_metadata: both of its UploadErrors are
\* caught by pusher's handler (line 134) and leave pusher as an UploadError
calculate_file_metadata ==
    /\ pc = "metadata"
    /\ exists_check' = Append(exists_check, local.exists)
    /\ IF ~local.exists
       THEN /\ raise("UploadError", "Error uploading file: File does not exist")
            /\ UNCHANGED metadata
       ELSE IF ~local.readable
       THEN /\ raise("UploadError", "Error uploading file: Error calculating file metadata")
            /\ UNCHANGED metadata
       ELSE /\ metadata' = {file_metadata}
            /\ pc' = "copy"
            /\ UNCHANGED <<out, exc, exit_code>>
    /\ UNCHANGED <<env, interrupted_at, conf, opt, config, s3_path, copies, ret>>

\* pusher, lines 111-133: the call of rclone.copy
copy ==
    /\ pc = "copy"
    /\ LET cfg == CHOOSE c \in config : TRUE
           md == CHOOSE m \in metadata : TRUE
       IN copies' = Append(copies,
            [source |-> opt.local_file,
             destination |-> destination(s3_path),
             ignore_existing |-> opt.overwrite,
             args |-> FixedArgs,
             metadata_set |-> cryohydro_metadata_set(cfg, s3_path, opt.local_file, md)])
    /\ pc' = "copying"
    /\ UNCHANGED <<env, interrupted_at, conf, opt, config, s3_path, metadata,
                   exists_check, out, exc,
                   ret, exit_code>>

\* Faulty variant of copy_return: a copy that raised is attempted a second time
copy_return_retry ==
    /\ pc = "copying"
    /\ entry # "CLMS"
    /\ \E ok \in (IF rclone_installed THEN BOOLEAN ELSE {FALSE}) :
         IF ok
         THEN /\ pc' = IF entry = "CRYOHYDRO" THEN "report" ELSE "done"
              /\ UNCHANGED <<out, exc, exit_code>>
         ELSE IF Len(copies) < 2
         THEN pc' = "copy" /\ UNCHANGED <<out, exc, exit_code>>
         ELSE raise("UploadError", "Error uploading file: rclone")
    /\ UNCHANGED <<env, interrupted_at, conf, opt, config, s3_path, metadata,
                   exists_check, copies, ret>>

\* pusher, lines 133-135: rclone.copy returns, and pusher with it, or raises
copy_return ==
    /\ pc = "copying"
    /\ entry # "CLMS"
    /\ \E ok \in (IF rclone_installed THEN BOOLEAN ELSE {FALSE}) :
         IF ok
         THEN /\ pc' = IF entry = "CRYOHYDRO" THEN "report" ELSE "done"
              /\ UNCHANGED <<out, exc, exit_code>>
         ELSE raise("UploadError", "Error uploading file: rclone")
    /\ UNCHANGED <<env, interrupted_at, conf, opt, config, s3_path, metadata,
                   exists_check, copies, ret>>

\* main, line 300, and the return of main
report ==
    /\ pc = "report"
    /\ out' = Append(out, "Successfully uploaded")
    /\ exit_code' = <<0>>
    /\ pc' = "done"
    /\ UNCHANGED <<env, interrupted_at, conf, opt, config, s3_path, metadata,
                   exists_check, copies,
                   exc, ret>>

\* parse_credentials called directly
parse_credentials_call ==
    /\ pc = "parse_credentials"
    /\ LET r == parse_credentials(cred_file)
       IN /\ exc' = r.exc
          /\ ret' = r.ret
    /\ pc' = "done"
    /\ UNCHANGED <<env, interrupted_at, conf, opt, config, s3_path, metadata,
                   exists_check, copies,
                   out, exit_code>>

\* ------------------------------------------------------------ CLMS_upload.py
\* Lines 17-19
clms_start ==
    /\ pc = "clms_start"
    /\ IF ~rclone_installed
       THEN clms_exit("ERROR: rclone binary has not been detected")
       ELSE pc' = "clms_parse" /\ UNCHANGED <<out, exc, exit_code>>
    /\ UNCHANGED <<env, interrupted_at, conf, opt, config, s3_path, metadata,
                   exists_check, copies, ret>>

\* Lines 21-25: -o stores False into overwrite, whose default is True
clms_parse ==
    /\ pc = "clms_parse"
    /\ \E l \in LocalFiles, b \in Fragments, o \in BOOLEAN :
         opt' = [local_file |-> l, s3_path |-> <<>>, producer_bucket |-> b,
                 overwrite |-> ~o, credentials_path |-> FALSE]
    /\ pc' = "clms_bucket"
    /\ UNCHANGED <<env, interrupted_at, conf, config, s3_path, metadata, exists_check,
                   copies, out,
                   exc, ret, exit_code>>

\* Lines 26-28
clms_bucket ==
    /\ pc = "clms_bucket"
    /\ IF opt.producer_bucket = <<>>
       THEN clms_exit("ERROR:No producer_bucket!")
       ELSE pc' = "clms_local" /\ UNCHANGED <<out, exc, exit_code>>
    /\ UNCHANGED <<env, interrupted_at, conf, opt, config, s3_path, metadata,
                   exists_check, copies, ret>>

\* Faulty variant of clms_local: the existence check of lines 30-32 is left out
clms_local_unchecked ==
    /\ pc = "clms_local"
    /\ IF opt.local_file = <<>>
       THEN clms_exit("ERROR:No input file provided!")
       ELSE pc' = "clms_metadata" /\ UNCHANGED <<out, exc, exit_code>>
    /\ UNCHANGED <<env, interrupted_at, conf, opt, config, s3_path, metadata,
                   exists_check, copies, ret>>

\* Lines 29-32 and 45-47
clms_local ==
    /\ pc = "clms_local"
    /\ IF opt.local_file = <<>>
       THEN clms_exit("ERROR:No input file provided!") /\ UNCHANGED exists_check
       ELSE /\ exists_check' = Append(exists_check, local.exists)
            /\ IF ~local.exists
               THEN clms_exit("ERROR:File does not exists")
               ELSE pc' = "clms_metadata" /\ UNCHANGED <<out, exc, exit_code>>
    /\ UNCHANGED <<env, interrupted_at, conf, opt, config, s3_path, metadata, copies, ret>>

\* Lines 34-39: a failing read is caught by the bare except
clms_metadata ==
    /\ pc = "clms_metadata"
    /\ IF ~local.readable
       THEN clms_except("OSError") /\ UNCHANGED metadata
       ELSE /\ metadata' = {file_metadata}
            /\ pc' = "clms_copy"
            /\ UNCHANGED <<out, exc, exit_code>>
    /\ UNCHANGED <<env, interrupted_at, conf, opt, config, s3_path, exists_check, copies, ret>>

\* Line 40: the arguments are built (environ[...] may raise KeyError) and
\* rclone.copy is called
clms_copy ==
    /\ pc = "clms_copy"
    /\ IF ~env_endpoint
       THEN clms_except("KeyError") /\ UNCHANGED copies
       ELSE /\ copies' = Append(copies,
                 [source |-> opt.local_file,
                  destination |-> <<"CLMS:">> \o opt.producer_bucket \o DatePath,
                  ignore_existing |-> opt.overwrite,
                  args |-> FixedArgs,
                  metadata_set |->
                      clms_metadata_set(opt.producer_bucket, opt.local_file,
                                        CHOOSE m \in metadata : TRUE)])
            /\ pc' = "copying"
            /\ UNCHANGED <<out, exc, exit_code>>
    /\ UNCHANGED <<env, interrupted_at, conf, opt, config, s3_path, metadata,
                   exists_check, ret>>

\* Lines 40-44: rclone.copy returns and the script ends, or it raises
clms_copy_return ==
    /\ pc = "copying"
    /\ entry = "CLMS"
    /\ \E ok \in BOOLEAN :
         IF ok
         THEN /\ pc' = "done"
              /\ exit_code' = <<0>>
              /\ UNCHANGED <<out, exc>>
         ELSE clms_except("RcloneException")
    /\ UNCHANGED <<env, interrupted_at, conf, opt, config, s3_path, metadata,
                   exists_check, copies, ret>>

\* ---------------------------------------------------------------- interrupt
\* The positions main's try block covers (lines 287-300)
MainTry == {"main_setup", "config_exists", "config_settings", "validate", "pusher",
            "metadata", "copy", "copying", "report"}
\* The positions the try block of CLMS_upload.py covers (lines 33-40)
ClmsTry == {"clms_metadata", "clms_copy", "copying"}

\* Ctrl-C: KeyboardInterrupt is raised at the current position.  It is no
\* Exception, so the handlers of pusher, calculate_file_metadata, rclone_setup,
\* parse_credentials and config_settings let it pass.
interrupt ==
    /\ pc # "done"
    /\ CASE entry = "CRYOHYDRO" /\ pc \in MainTry ->
              main_except("KeyboardInterrupt", "", 1)
         [] entry = "CLMS" /\ pc \in ClmsTry -> clms_except("KeyboardInterrupt")
         [] entry \in {"CRYOHYDRO", "CLMS"} /\ pc \notin (MainTry \cup ClmsTry) ->
              uncaught("KeyboardInterrupt")
         [] OTHER -> escape("KeyboardInterrupt")
    /\ interrupted_at' = pc
    /\ UNCHANGED <<env, conf, opt, config, s3_path, metadata, exists_check, copies, ret>>

\* ------------------------------------------------------------ specification
Next ==
    \/ import
    \/ parse_args
    \/ rclone_setup
    \/ config_exists
    \/ config_settings_call
    \/ validate
    \/ pusher
    \/ calculate_file_metadata
    \/ copy
    \/ copy_return
    \/ report
    \/ parse_credentials_call
    \/ clms_start
    \/ clms_parse
    \/ clms_bucket
    \/ clms_local
    \/ clms_metadata
    \/ clms_copy
    \/ clms_copy_return
    \/ interrupt

Spec == Init /\ [][Next]_vars

\* ------------------------------------------------------------------- claims
Range(seq) == {seq[i] : i \in 1..Len(seq)}
Scripts == {"CRYOHYDRO", "CLMS"}
Done == pc = "done"
Interrupted == interrupted_at # ""

\* C1: a local file that does not exist is never copied: no run invokes
\* rclone.copy unless one existence check of the local file came before it and
\* was positive; with the file missing, pusher ends with UploadError and
\* CLMS_upload.py exits with status 1.
C1_MissingFileNeverCopied ==
    /\ ~local.exists => copies = <<>>
    /\ copies # <<>> => exists_check = <<TRUE>>
    /\ (Done /\ ~Interrupted /\ exists_check = <<FALSE>> /\ entry \in {"CRYOHYDRO", "pusher"})
          => exc = "UploadError" /\ ret = {}
    /\ (Done /\ ~Interrupted /\ ~local.exists /\ entry = "pusher") => exc = "UploadError"
    /\ (Done /\ ~Interrupted /\ ~local.exists /\ entry = "CLMS") => exit_code = <<1>>

C1_Witness ==
    /\ entry = "pusher"
    /\ Done
    /\ ~local.exists
    /\ exists_check = <<FALSE>>
    /\ exc = "UploadError"
    /\ copies = <<>>

\* C2 (as claimed): every copy is invoked with ignore_existing = NOT overwrite.
C2_IgnoreExistingIsInverse ==
    \A i \in 1..Len(copies) : copies[i].ignore_existing = ~opt.overwrite

\* C3 (as claimed): a script that was not interrupted exits with 0 exactly when
\* the upload succeeded and with 1 on every detected error.
C3_ExitCodeZeroOrOne ==
    (Done /\ entry \in Scripts /\ ~Interrupted) =>
        /\ exit_code \in {<<0>>, <<1>>}
        /\ exit_code = <<0>> <=> (exc = "none" /\ Len(copies) = 1)

\* C4 (as claimed): the destination handed to the CRYOHYDRO copy holds no
\* doubled path separator, and is the remote prefix followed by the fragment
\* without its trailing slashes (for a fragment that itself yields no '//').
C4_DestinationCollapsed ==
    \A i \in 1..Len(copies) :
        entry # "CLMS" =>
            LET f == rstrip(opt.s3_path, "/")
            IN /\ ~HasDoubleSlash(copies[i].destination)
               /\ ~HasDoubleSlash(<<"/">> \o f)
                     => copies[i].destination = <<Remote, "/">> \o f

\* The value of one metadata entry of a copy
MetaValue(c, k) ==
    LET i == CHOOSE j \in 1..Len(c.metadata_set) : c.metadata_set[j].key = k
    IN c.metadata_set[i].value

\* C5 (as claimed): the source-s3-path entry is s3://<bucket>/<fragment without
\* its trailing slash>/<basename>, the bucket always present and no doubled
\* slash after the scheme (the full form for a fragment that is more than
\* slashes and itself yields no '//').
C5_SourcePathUnderBucket ==
    \A i \in 1..Len(copies) :
        entry # "CLMS" =>
            LET v == MetaValue(copies[i], "source-s3-path")
                f == rstrip(opt.s3_path, "/")
                tail == <<"/">> \o basename(opt.local_file)
            IN /\ Len(v) >= 4 /\ SubSeq(v, 1, 4) = <<"s3:", "/", "/", Bucket>>
               /\ ~HasDoubleSlash(SubSeq(v, 4, Len(v)))
               /\ SubSeq(v, Len(v) - Len(tail) + 1, Len(v)) = tail
               /\ (f # <<>> /\ ~HasDoubleSlash(<<"/">> \o f))
                     => v = <<"s3:", "/", "/", Bucket, "/">> \o f \o tail

\* A line of spaces only
IsBlank(l) == \A i \in 1..Len(l) : l[i] = " "
\* The first line of the file that is not blank, as written
FirstLine(file) ==
    file.lines[CHOOSE i \in 1..Len(file.lines) :
                   ~IsBlank(file.lines[i]) /\ \A j \in 1..(i - 1) : IsBlank(file.lines[j])]

\* C6: parse_credentials returns the pair (id, secret) when the first non-blank
\* line of the file is 'id:secret' with exactly one colon, each field without
\* its surrounding blanks; it raises CredentialsError and returns nothing when
\* the file is missing, cannot be read, has no non-blank line, or its first
\* non-blank line has no colon or more than one.  Nothing else leaves it.
C6_ParseCredentials ==
    (entry = "parse_credentials" /\ Done /\ ~Interrupted) =>
        IF /\ cred_file.exists
           /\ cred_file.readable
           /\ \E i \in 1..Len(cred_file.lines) : ~IsBlank(cred_file.lines[i])
           /\ Count(FirstLine(cred_file), ":") = 1
        THEN LET l == FirstLine(cred_file)
                 c == CHOOSE i \in 1..Len(l) : l[i] = ":"
             IN /\ exc = "none"
                /\ ret = {<<strip(SubSeq(l, 1, c - 1)), strip(SubSeq(l, c + 1, Len(l)))>>}
        ELSE exc = "CredentialsError" /\ ret = {}

C6_Witness ==
    /\ entry = "parse_credentials"
    /\ Done
    /\ cred_file.lines = << <<"A", ":", "A">> >>
    /\ ret = {<< <<"A">>, <<"A">> >>}
    /\ exc = "none"

\* The configuration file holds the CRYOHYDRO section with all six keys
Complete(c) == c.exists /\ c.wellformed /\ c.section /\ c.keys = KeySet

\* C7 (as claimed): config_settings returns a full UploadConfig or fails with
\* UploadError, also when the configuration file is absent.
C7_UploadErrorOrConfig ==
    (entry = "config_settings" /\ Done /\ ~Interrupted) =>
        \/ exc = "none" /\ ret # {}
        \/ exc = "UploadError" /\ ret = {}

\* C7 (amended): config_settings returns an UploadConfig with all six fields
\* taken from the CRYOHYDRO section, or returns nothing: it fails with
\* UploadError when the file is there but cannot be parsed, lacks the section
\* or lacks one of the keys, and with FileNotFoundError when the file is
\* absent.  Under main a resolution that failed ends the run with UploadError
\* and exit status 1, and the copy is never invoked.
C7_AllOrNothingConfig ==
    /\ (entry = "config_settings" /\ Done /\ ~Interrupted) =>
          IF Complete(conf)
          THEN /\ exc = "none"
               /\ ret = {[rclone_type |-> conf.vals["type"],
                          provider |-> conf.vals["provider"],
                          access_key_id |-> conf.vals["access_key_id"],
                          secret_access_key |-> conf.vals["secret_access_key"],
                          region |-> conf.vals["region"],
                          endpoint |-> conf.vals["endpoint"]]}
          ELSE /\ ret = {}
               /\ exc = IF conf.exists THEN "UploadError" ELSE "FileNotFoundError"
    /\ entry = "CRYOHYDRO" =>
          /\ config # {} => Complete(conf)
          /\ copies # <<>> => config # {}
          /\ (Done /\ ~Interrupted /\ ~Complete(conf)) =>
                exc = "UploadError" /\ exit_code = <<1>> /\ copies = <<>> /\ config = {}

C7_Witness ==
    /\ entry = "config_settings"
    /\ Done
    /\ conf.section
    /\ Cardinality(conf.keys) = 5
    /\ exc = "UploadError"
    /\ ret = {}

\* C8 (as claimed): every copy carries the fixed options and a metadata entry
\* for each of uploaded, WorkflowName, source endpoint, source path, file size,
\* MD5 and last-modified; the access key entry only in the CRYOHYDRO variant;
\* the computed MD5 checksum is not left out.
C8_MetadataComplete ==
    \A i \in 1..Len(copies) :
        LET ks == {copies[i].metadata_set[j].key : j \in 1..Len(copies[i].metadata_set)}
        IN /\ copies[i].args = FixedArgs
           /\ {"uploaded", "WorkflowName", "source-s3-endpoint-url", "source-s3-path",
               "file-size", "md5"} \subseteq ks
           /\ ks \cap {"last_modified", "last-modified"} # {}
           /\ "s3-public-key" \in ks <=> entry # "CLMS"
           /\ \A m \in metadata : MetaValue(copies[i], "md5") = m.md5_checksum

\* C9 (as claimed): an interrupt that arrives inside the try block of either
\* script ends it with status 1 and is reported by its own message, never by
\* the lines printed for a failed upload.
C9_InterruptReportedDistinctly ==
    (entry \in Scripts /\ interrupted_at \in (MainTry \cup ClmsTry)) =>
        /\ exit_code = <<1>>
        /\ "ERROR:Uploading file" \notin Range(out)
        /\ entry = "CRYOHYDRO" => out[Len(out)] = "Upload interrupted by user"

\* C10: rclone.copy is invoked at most once in a run; only after the options
\* were validated, the configuration resolved and the local file found to
\* exist; success (exit 0, 'Successfully uploaded') is reported only after that
\* one invocation returned without raising; a failure inside pusher leaves it
\* as UploadError with no second attempt.
C10_SingleGuardedCopy ==
    /\ Len(copies) <= 1
    /\ copies # <<>> =>
          /\ exists_check = <<TRUE>>
          /\ metadata # {}
          /\ opt.local_file # <<>>
          /\ entry # "CLMS" => config # {} /\ opt.s3_path # <<>>
          /\ entry = "CLMS" => env_endpoint /\ opt.producer_bucket # <<>>
    /\ (exit_code = <<0>> \/ "Successfully uploaded" \in Range(out)) =>
          Len(copies) = 1 /\ exc = "none" /\ Done
    /\ (entry = "pusher" /\ Done /\ ~Interrupted) =>
          \/ exc = "none" /\ Len(copies) = 1
          \/ exc = "UploadError"

C10_Witness ==
    /\ entry = "CRYOHYDRO"
    /\ Done
    /\ exit_code = <<0>>
    /\ Len(copies) = 1
    /\ out[Len(out)] = "Successfully uploaded"

====
